---- MODULE Spec2Model ----
(***************************************************************************)
(* NutriBot: the privacy gate (privacyMiddleware, enhancedPrivacyMiddle-   *)
(* ware, consentValidationMiddleware), the chatbot routes behind it, the   *)
(* ChatbotService provider selection and the LocalLLMService provider      *)
(* client with its rule-based fallback.                                    *)
(*                                                                         *)
(* One HTTP request is followed through the Express stack of server.js:    *)
(*   app.use(privacyMiddleware) -> express.json() -> chatbot router        *)
(*   (enhancedPrivacyMiddleware -> consentValidationMiddleware -> route)   *)
(*   -> ChatbotService -> provider -> response.                            *)
(* Texts are sequences of tokens; a token is a word class.                 *)
(*                                                                         *)
(* SpecAnon and SpecFallback apply anonymizePrompt and getFallbackResponse *)
(* to texts on their own; SpecLife follows one Assessment record through   *)
(* start, processAnswer, getAssessment and deleteAssessment calls that     *)
(* interleave at their awaits, SpecLifeFair with the calls resumed and    *)
(* the client retrying.  SpecPrivacy follows the consent and data routes   *)
(* of routes/privacy.js; SpecChain invokes each middleware on its own      *)
(* with a continuation that may throw.                                     *)
(***************************************************************************)
EXTENDS Integers, Sequences, FiniteSets, TLC

\* ------------------------------------------------------------------ bounds
MaxRequests == 2
MaxLen == 3
MaxSessions == 2
MaxAnswers == 16
MaxConsents == 2
MaxRecords == 2

\* --------------------------------------------------------------- constants
Undefined == "undefined"
NoError == "no_error"

\* An optional value is <<>> (undefined) or <<v>>.
None == <<>>
Some(v) == <<v>>

\* ------------------------------------------------------------------ paths
\* A path is the sequence of its segments: /api/chatbot/meal-plan is
\* <<"api", "chatbot", "meal-plan">>.
ChatbotRoutes ==
  {"health-assessment", "answer-question", "personalized-advice",
   "meal-plan", "track-progress"}

\* app.use('/api/chatbot', chatbotRoutes): the prefix Express strips from
\* req.path inside the router.
ChatbotMount == <<"api", "chatbot">>

OriginalPath(route) == ChatbotMount \o <<route>>

RouterPath(route) == <<route>>

\* segment.startsWith(word), for the segments and words that occur
StartsWith(segment, word) ==
  \/ segment = word
  \/ word = "health" /\ segment \in {"health-assessment", "health-trends"}

\* path.includes('/' + word): some segment starts with word
IncludesSlashWord(path, word) ==
  \E i \in 1..Len(path) : StartsWith(path[i], word)

\* path.includes('/' + word + '/'): a segment other than the last is word
IncludesSegment(path, word) ==
  \E i \in 1..(Len(path) - 1) : path[i] = word

\* --------------------------------------------------------- request bodies
\* A body is a function from field names to values.  A value is the class
\* of its content: "" (falsy), "w" (text without personal data), "NAME"
\* (text naming a person), "BAD" (content the anonymizer cannot process
\* and throws on), "REDACTED" (what the anonymizer leaves of a name).
Fields == {"query", "context", "email"}

\* "query" is the route's own payload field (query, answer, metrics, ...);
\* "context" is context.userProfile.
FieldValues(f) ==
  CASE f = "query" -> {"w", "NAME", "BAD"}
    [] f = "context" -> {"NAME"}
    [] OTHER -> {"", "w"}

Bodies ==
  UNION {{b \in [fs -> {"", "w", "NAME", "BAD"}] :
            \A f \in fs : b[f] \in FieldValues(f)} : fs \in SUBSET Fields}

Truthy(v) == v # "" /\ v # Undefined

allowedFields ==
  {"message", "healthData", "dietaryPreferences", "allergies",
   "medicalConditions", "goals", "age", "weight", "height"}

personalIdentifiers ==
  {"email", "phone", "address", "socialSecurityNumber",
   "passportNumber", "driverLicense", "creditCard"}

Restrict(f, S) == [k \in S |-> f[k]]

minimizeData(data, path) ==
  LET kept == IF IncludesSegment(path, "chatbot")
              THEN Restrict(data, DOMAIN data \cap allowedFields)
              ELSE data
      drop == {k \in DOMAIN kept \cap personalIdentifiers : Truthy(kept[k])}
  IN  Restrict(kept, DOMAIN kept \ drop)

\* utils/dataAnonymizer is not part of the sources.  It throws on content
\* it cannot process; applied to an object it replaces identifying values.
anonymizeBodyThrows(data) == \E k \in DOMAIN data : data[k] = "BAD"

anonymizeBody(data) ==
  [k \in DOMAIN data |-> IF data[k] = "NAME" THEN "REDACTED" ELSE data[k]]

\* --------------------------------------------------------- consent tokens
\* utils/consentValidator: the external validateConsent(token) -> bool.
\* Tokens are "good", "bad" and "malformed", which the validator throws on.
validateConsentThrows(token) == token = "malformed"

validateConsent(token) == token = "good"

\* req.headers['x-consent-token'] || req.cookies?.consentToken
consentTokenOf(headerToken, cookieToken) ==
  IF Truthy(headerToken) THEN headerToken ELSE cookieToken

ConsentTypes ==
  {"health_data_processing", "ai_analysis", "personalization"}

consentMap ==
  (<<"api", "chatbot", "health-assessment">> :>
      <<"health_data_processing", "ai_analysis">>) @@
  (<<"api", "chatbot", "personalized-advice">> :>
      <<"health_data_processing", "ai_analysis", "personalization">>) @@
  (<<"api", "nutritionist", "share-data">> :>
      <<"health_data_sharing", "nutritionist_access">>) @@
  (<<"api", "analytics", "health-trends">> :>
      <<"analytics", "health_data_processing">>) @@
  (<<"api", "user", "export-data">> :> <<"data_portability">>)

getRequiredConsents(path) ==
  IF path \in DOMAIN consentMap THEN consentMap[path] ELSE <<>>

\* userConsents.includes(consent): the header is a string holding a list
\* of consent type names (a set here), or it is absent and [] is used.  No
\* consent type name is a substring of another, so the substring test on
\* the header is membership in the list.
userConsentsIncludes(userConsents, consent) ==
  userConsents # None /\ consent \in userConsents[1]

missingConsentsOf(required, userConsents) ==
  LET Missing(c) == ~userConsentsIncludes(userConsents, c)
  IN  SelectSeq(required, Missing)

ToSet(s) == {s[i] : i \in 1..Len(s)}

\* ------------------------------------------------------ privacyMiddleware
\* process.env, read on every request
Configs ==
  [dataMinimization : BOOLEAN, anonymization : BOOLEAN, useLocalLLM : BOOLEAN]

\* variant: any supplied token counts as valid consent
resolveConsentValid_anyToken(consentToken) == Truthy(consentToken)

\* lines 28 and 36-39: consentValid starts false and is overwritten by the
\* validator's verdict when a token was supplied
resolveConsentValid(consentToken) ==
  IF Truthy(consentToken) THEN validateConsent(consentToken) ELSE FALSE

\* The middleware's effect on (req.privacyContext, req.body) and the
\* argument it hands to next: NoError for next(), the error for next(error).
privacyMiddleware(env, path, headerToken, cookieToken, body) ==
  LET ctx0 == [consentValid |-> FALSE,
               dataMinimization |-> env.dataMinimization,
               anonymization |-> env.anonymization]
      consentToken == consentTokenOf(headerToken, cookieToken)
      ctx1 == [ctx0 EXCEPT !.consentValid = resolveConsentValid(consentToken)]
      minimize == ctx1.dataMinimization /\ body # None
      body1 == IF minimize THEN Some(minimizeData(body[1], path)) ELSE body
      anonymize == ctx1.anonymization /\ body1 # None
  IN  IF Truthy(consentToken) /\ validateConsentThrows(consentToken)
      THEN [privacyContext |-> ctx0, body |-> body,
            minimized |-> FALSE, anonymized |-> FALSE,
            err |-> "consent_validator_error"]
      ELSE IF anonymize /\ anonymizeBodyThrows(body1[1])
      THEN [privacyContext |-> ctx1, body |-> body1,
            minimized |-> minimize, anonymized |-> FALSE,
            err |-> "anonymizer_error"]
      ELSE [privacyContext |-> ctx1,
            body |-> IF anonymize THEN Some(anonymizeBody(body1[1])) ELSE body1,
            minimized |-> minimize, anonymized |-> anonymize,
            err |-> NoError]

\* variant: only the /medical test is made
isHealthPath_medicalOnly(path) == IncludesSlashWord(path, "medical")

\* enhancedPrivacyMiddleware, line 113
isHealthPath(path) ==
  IncludesSlashWord(path, "health") \/ IncludesSlashWord(path, "medical")

\* ------------------------------------------------------------------ texts
\* A text is a sequence of tokens: the value classes above, "LOC", "DATE"
\* and "PID" (a location, a date, a personal identifier), and the static
\* texts "SYS" (the system prompt template) and "GEN" (a provider's reply).
FieldOrder == <<"context", "email", "query">>

\* JSON.stringify(obj): the contents of the fields, in order
JsonText(obj) ==
  LET all == [i \in 1..Len(FieldOrder) |->
                IF FieldOrder[i] \in DOMAIN obj THEN obj[FieldOrder[i]] ELSE ""]
      NonEmpty(v) == v # ""
  IN  SelectSeq(all, NonEmpty)

\* utils/dataAnonymizer applied to a text with the options of
\* anonymizePrompt: it throws on content it cannot process, otherwise it
\* removes the tokens of the classes the options name.
anonymizeDataThrows(text) == "BAD" \in ToSet(text)

anonymizeData(text, options) ==
  LET removed == (IF options.removeNames THEN {"NAME"} ELSE {}) \cup
                 (IF options.removeLocations THEN {"LOC"} ELSE {}) \cup
                 (IF options.removeDates THEN {"DATE"} ELSE {}) \cup
                 (IF options.removePersonalInfo THEN {"PID"} ELSE {})
      Kept(t) == t \notin removed
  IN  SelectSeq(text, Kept)

\* variant: the high level asks for names only
highOptions_namesOnly ==
  [removeNames |-> TRUE, removeLocations |-> FALSE,
   removeDates |-> FALSE, removePersonalInfo |-> FALSE]

highOptions ==
  [removeNames |-> TRUE, removeLocations |-> TRUE,
   removeDates |-> TRUE, removePersonalInfo |-> TRUE]

mediumOptions ==
  [removeNames |-> TRUE, removeLocations |-> FALSE,
   removeDates |-> FALSE, removePersonalInfo |-> FALSE]

\* variant: the anonymized prompt is returned with a notice in front
anonymizePrompt_tagged(prompt, level) ==
  LET anonymizationLevel == IF Truthy(level) THEN level ELSE "medium"
  IN  IF anonymizationLevel \in {"high", "medium"}
      THEN IF anonymizeDataThrows(prompt) THEN prompt
           ELSE <<"w">> \o anonymizeData(prompt,
                  IF anonymizationLevel = "high" THEN highOptions
                  ELSE mediumOptions)
      ELSE prompt

\* LocalLLMService.anonymizePrompt; level is privacyContext.anonymizationLevel
anonymizePrompt(prompt, level) ==
  LET anonymizationLevel == IF Truthy(level) THEN level ELSE "medium"
  IN  CASE anonymizationLevel = "high" ->
             IF anonymizeDataThrows(prompt) THEN prompt
             ELSE anonymizeData(prompt, highOptions)
        [] anonymizationLevel = "medium" ->
             IF anonymizeDataThrows(prompt) THEN prompt
             ELSE anonymizeData(prompt, mediumOptions)
        [] OTHER -> prompt

\* the context fields interpolated into the system prompt; userProfile
\* stands for userProfile, dietaryRestrictions and healthGoals alike
contextText(userProfile) ==
  IF Truthy(userProfile) THEN <<userProfile>> ELSE <<>>

\* LocalLLMService.buildSystemPrompt
buildSystemPrompt(userProfile) == <<"SYS">> \o contextText(userProfile)

\* ChatbotService.getSystemPrompt
getSystemPrompt(userProfile) == <<"SYS">> \o contextText(userProfile)

buildAdvicePrompt(query, userProfile) ==
  getSystemPrompt(userProfile) \o <<query>>

\* history is JSON.stringify(healthData) followed by JSON.stringify(answers)
buildQuestionPrompt(history) == getSystemPrompt(Undefined) \o history

buildRecommendationsPrompt(history) == getSystemPrompt(Undefined) \o history

\* called with one object argument, so that duration, preferences and
\* restrictions are undefined: the prompt carries no request data
buildMealPlanPrompt == getSystemPrompt(Undefined)

buildInsightsPrompt(metrics) == getSystemPrompt(Undefined) \o <<metrics>>

\* ------------------------------------------------- rule-based responder
fallbackKeys ==
  <<"hola", "nutrición", "evaluación", "plan", "peso", "energía",
    "ejercicio", "vegetariano", "vegano", "gluten", "diabetes",
    "colesterol", "presión", "digestión", "sueño", "estrés",
    "privacidad", "ayuda">>

\* the table keys that token.toLowerCase() contains: the system prompt
\* template speaks of "nutrición" and "privacidad"; a word of the user is a
\* table key as it stands ("hola", "plan") or in capitals ("HOLA", "AYUDA");
\* no key of the table is a substring of another.
keysIn(token) ==
  CASE token = "SYS" -> {"nutrición", "privacidad"}
    [] token \in {"hola", "HOLA"} -> {"hola"}
    [] token = "plan" -> {"plan"}
    [] token \in {"ayuda", "AYUDA"} -> {"ayuda"}
    [] OTHER -> {}

lowerPromptIncludes(prompt, key) ==
  \E i \in 1..Len(prompt) : key \in keysIn(prompt[i])

\* variant: the loop keeps the last matching key of the table
getFallbackResponse_lastKey(prompt, context) ==
  LET hits == {i \in 1..Len(fallbackKeys) :
                 lowerPromptIncludes(prompt, fallbackKeys[i])}
  IN  IF hits # {}
      THEN LET last == CHOOSE i \in hits : \A j \in hits : i >= j
           IN  [success |-> TRUE, response |-> fallbackKeys[last],
                model |-> "fallback-rule-based", processingTime |-> 0]
      ELSE [success |-> TRUE, response |-> "generic",
            model |-> "fallback-default", processingTime |-> 0]

\* LocalLLMService.getFallbackResponse: the canned answer is named by its
\* key; context is a parameter the body never reads
getFallbackResponse(prompt, context) ==
  LET hits == {i \in 1..Len(fallbackKeys) :
                 lowerPromptIncludes(prompt, fallbackKeys[i])}
  IN  IF hits # {}
      THEN LET first == CHOOSE i \in hits : \A j \in hits : i <= j
           IN  [success |-> TRUE, response |-> fallbackKeys[first],
                model |-> "fallback-rule-based", processingTime |-> 0]
      ELSE [success |-> TRUE, response |-> "generic",
            model |-> "fallback-default", processingTime |-> 0]

\* ------------------------------------------------------- ChatbotService
TotalQuestions == 15

\* the constructor builds this.localLLM only when useLocalLLM is set
localLLMOf(env) ==
  IF env.useLocalLLM THEN "LocalLLMService" ELSE Undefined

\* Math.round((answers.length / totalQuestions) * 100)
progressOf(answered, total) == (200 * answered + total) \div (2 * total)

\* ------------------------------------------------------------------ state
VARIABLES
  cfg,             \* process.env flags
  reqCount,        \* requests received so far
  pc,              \* where the current request is in the stack
  req,             \* route and consent token header and cookie
  userConsents,    \* req.headers['x-user-consents'] as the gate read it
  body,            \* req.body, optional
  privacyContext,  \* req.privacyContext, optional
  mwErr,           \* argument privacyMiddleware gave to the callback
  res,             \* response sent, status 0 while none was sent
  invoked,         \* middlewares and handlers invoked for this request
  consentChecked,  \* the consentValid check of line 115 has passed
  bodyMinimized,   \* minimizeData ran on the parsed body
  bodyAnonymized,  \* anonymizeData ran on the parsed body
  llm,             \* the generateLLMResponse call of this request
  providerCalls,   \* requests posted to a provider for this request
  assessments,     \* the Assessment table
  anonPayload,     \* a text handed to anonymizePrompt
  anonLevel,       \* the level it is anonymized at
  anonStage,       \* how many times anonymizePrompt was applied
  anonOnce,        \* anonymizePrompt(anonPayload, anonLevel)
  anonTwice,       \* anonymizePrompt(anonOnce, anonLevel)
  fbPrompt,        \* a prompt handed to getFallbackResponse
  fbContext,       \* the context handed along with it
  fbStage,         \* 1 once getFallbackResponse was applied
  fbResult,        \* getFallbackResponse(fbPrompt)
  rows,            \* the Assessment table, by id, with the owner's userId
  createdCount,    \* assessments created so far
  sessions,        \* the processAnswer calls awaiting the provider
  reply,           \* the last response of an assessment route
  consentRecords,  \* the Consent table, by id
  consentCount,    \* consent records created so far
  dataRecords,     \* stored personal data records of each user
  privacyReply,    \* the last response of a privacy route
  mwCall,          \* a middleware invocation: which one, request, continuation
  mwTrace          \* what the invocation did: responses sent, calls of next

anonVars == <<anonPayload, anonLevel, anonStage, anonOnce, anonTwice>>

fallbackVars == <<fbPrompt, fbContext, fbStage, fbResult>>

lifeVars == <<rows, createdCount, sessions, reply>>

privacyVars == <<consentRecords, consentCount, dataRecords, privacyReply>>

chainVars == <<mwCall, mwTrace>>

sideVars == <<anonVars, fallbackVars, lifeVars, privacyVars, chainVars>>

vars ==
  <<sideVars, cfg, reqCount, pc, req, userConsents, body, privacyContext, mwErr, res, invoked,
    consentChecked, bodyMinimized, bodyAnonymized, llm, providerCalls,
    assessments>>

NoRes == [status |-> 0, code |-> "none", missingConsents |-> {},
          model |-> "none"]

Reply(status, code) == [NoRes EXCEPT !.status = status, !.code = code]

NoLLM ==
  [op |-> "none", target |-> 0, prompt |-> <<>>, userProfile |-> Undefined,
   answers |-> 0, payload |-> None, tried |-> <<>>, outcome |-> "none", result |-> None,
   failed |-> FALSE, lateReply |-> FALSE]

\* (x-consent-token header, consentToken cookie) of a request
TokenPairs ==
  {<<Undefined, Undefined>>, <<"good", Undefined>>, <<"bad", "good">>,
   <<"malformed", Undefined>>, <<Undefined, "good">>}

PipelineInit ==
  /\ reqCount = 0
  /\ pc = "idle"
  /\ req = [route |-> "none", headerToken |-> Undefined,
            cookieToken |-> Undefined]
  /\ userConsents = None
  /\ body = None
  /\ privacyContext = None
  /\ mwErr = NoError
  /\ res = NoRes
  /\ invoked = {}
  /\ consentChecked = FALSE
  /\ bodyMinimized = FALSE
  /\ bodyAnonymized = FALSE
  /\ llm = NoLLM
  /\ providerCalls = 0
  /\ assessments = <<>>

AnonIdle ==
  /\ anonPayload = <<>>
  /\ anonLevel = "medium"
  /\ anonStage = 0
  /\ anonOnce = <<>>
  /\ anonTwice = <<>>

FallbackIdle ==
  /\ fbPrompt = <<>>
  /\ fbContext = Undefined
  /\ fbStage = 0
  /\ fbResult = None

NoSession == [id |-> 0, answers |-> 0, status |-> "none", retry |-> FALSE]

Sessions == 1..MaxSessions

NoReply == [op |-> "none", id |-> 0, matched |-> FALSE, exists |-> FALSE,
            inProgress |-> FALSE, status |-> 0, code |-> "none", view |-> FALSE]

Users == {"u1", "u2"}

NoPrivacyReply ==
  [op |-> "none", status |-> 0, code |-> "none", format |-> "none",
   exported |-> FALSE, contentType |-> "none", held |-> 0,
   deletedRecords |-> 0]

PrivacyIdle ==
  /\ consentRecords = <<>>
  /\ consentCount = 0
  /\ dataRecords = [u \in Users |-> 0]
  /\ privacyReply = NoPrivacyReply

\* no middleware has been invoked: no next call, no response
NoTrace == [nextCalls |-> 0, nextErrors |-> 0, responses |-> 0,
            escaped |-> FALSE]

NoCall == [kind |-> "none", path |-> <<>>, headerToken |-> Undefined,
           cookieToken |-> Undefined, body |-> None, header |-> None,
           nextThrows |-> FALSE]

ChainIdle ==
  /\ mwCall = NoCall
  /\ mwTrace = NoTrace

LifeIdle ==
  /\ rows = <<>>
  /\ createdCount = 0
  /\ sessions = [s \in Sessions |-> NoSession]
  /\ reply = NoReply

Init ==
  /\ cfg \in Configs
  /\ PipelineInit
  /\ AnonIdle
  /\ FallbackIdle
  /\ LifeIdle
  /\ PrivacyIdle
  /\ ChainIdle

\* A request arrives; the previous one has been answered.
NewRequest ==
  /\ pc \in {"idle", "done"}
  /\ reqCount < MaxRequests
  /\ \E route \in ChatbotRoutes, t \in TokenPairs :
       req' = [route |-> route, headerToken |-> t[1], cookieToken |-> t[2]]
  /\ reqCount' = reqCount + 1
  /\ pc' = "app_privacy"
  /\ userConsents' = None
  /\ body' = None
  /\ privacyContext' = None
  /\ mwErr' = NoError
  /\ res' = NoRes
  /\ invoked' = {}
  /\ consentChecked' = FALSE
  /\ bodyMinimized' = FALSE
  /\ bodyAnonymized' = FALSE
  /\ llm' = NoLLM
  /\ providerCalls' = 0
  /\ UNCHANGED <<sideVars, cfg, assessments>>

\* app.use(privacyMiddleware): runs before express.json(), req.body is
\* undefined, req.path is the full path.
AppPrivacyMiddleware ==
  /\ pc = "app_privacy"
  /\ LET r == privacyMiddleware(cfg, OriginalPath(req.route),
                                req.headerToken, req.cookieToken, body)
     IN  /\ privacyContext' = Some(r.privacyContext)
         /\ body' = r.body
         /\ pc' = IF r.err = NoError THEN "body_parser" ELSE "error_handler"
  /\ invoked' = invoked \cup {"privacyMiddleware"}
  /\ UNCHANGED <<sideVars, cfg, reqCount, req, userConsents, mwErr, res, consentChecked,
                 bodyMinimized, bodyAnonymized, llm, providerCalls,
                 assessments>>

\* app.use(express.json())
BodyParser ==
  /\ pc = "body_parser"
  /\ \E b \in Bodies : body' = Some(b)
  /\ pc' = "router_privacy"
  /\ UNCHANGED <<sideVars, cfg, reqCount, req, userConsents, privacyContext, mwErr, res, invoked,
                 consentChecked, bodyMinimized, bodyAnonymized, llm,
                 providerCalls, assessments>>

\* enhancedPrivacyMiddleware, line 109: privacyMiddleware(req, res, callback)
\* inside the router, where req.path has lost the mount prefix.
RouterPrivacyMiddleware ==
  /\ pc = "router_privacy"
  /\ LET r == privacyMiddleware(cfg, RouterPath(req.route),
                                req.headerToken, req.cookieToken, body)
     IN  /\ privacyContext' = Some(r.privacyContext)
         /\ body' = r.body
         /\ bodyMinimized' = r.minimized
         /\ bodyAnonymized' = r.anonymized
         /\ mwErr' = r.err
  /\ invoked' = invoked \cup {"enhancedPrivacyMiddleware"}
  /\ pc' = "enhanced_callback"
  /\ UNCHANGED <<sideVars, cfg, reqCount, req, userConsents, res, consentChecked, llm,
                 providerCalls, assessments>>

\* enhancedPrivacyMiddleware, lines 109-131: the callback
EnhancedCallback ==
  /\ pc = "enhanced_callback"
  /\ IF mwErr # NoError
     THEN /\ pc' = "error_handler"
          /\ UNCHANGED <<res, consentChecked>>
     ELSE IF isHealthPath(RouterPath(req.route))
               /\ ~privacyContext[1].consentValid
     THEN /\ res' = Reply(403, "HEALTH_CONSENT_REQUIRED")
          /\ pc' = "done"
          /\ UNCHANGED consentChecked
     ELSE /\ consentChecked' = isHealthPath(RouterPath(req.route))
          /\ pc' = "consent_gate"
          /\ UNCHANGED res
  /\ UNCHANGED <<sideVars, cfg, reqCount, req, userConsents, body, privacyContext, mwErr, invoked,
                 bodyMinimized, bodyAnonymized, llm, providerCalls,
                 assessments>>

\* the x-user-consents header: absent, or a list of consent types
UserConsentHeaders ==
  {None, Some({"health_data_processing"}),
   Some({"health_data_processing", "ai_analysis"}), Some(ConsentTypes)}

\* consentValidationMiddleware
ConsentValidationMiddleware ==
  /\ pc = "consent_gate"
  /\ invoked' = invoked \cup {"consentValidationMiddleware"}
  /\ \E header \in UserConsentHeaders :
       LET requiredConsents == getRequiredConsents(RouterPath(req.route))
           missingConsents == missingConsentsOf(requiredConsents, header)
           reject == Len(requiredConsents) > 0 /\ Len(missingConsents) > 0
       IN  /\ userConsents' = header
           /\ res' = IF reject
                     THEN [Reply(403, "MISSING_CONSENTS") EXCEPT
                             !.missingConsents = ToSet(missingConsents)]
                     ELSE res
           /\ pc' = IF reject THEN "done" ELSE "route"
  /\ UNCHANGED <<sideVars, cfg, reqCount, req, body, privacyContext, mwErr,
                 consentChecked, bodyMinimized, bodyAnonymized, llm,
                 providerCalls, assessments>>

\* app.use(errorHandler): middleware/errorHandler answers a forwarded error
ErrorHandler ==
  /\ pc = "error_handler"
  /\ res' = Reply(500, "INTERNAL_ERROR")
  /\ invoked' = invoked \cup {"errorHandler"}
  /\ pc' = "done"
  /\ UNCHANGED <<sideVars, cfg, reqCount, req, userConsents, body, privacyContext, mwErr,
                 consentChecked, bodyMinimized, bodyAnonymized, llm,
                 providerCalls, assessments>>

AssessmentIds == 1..MaxRequests

\* decryptData(assessment.healthData) and decryptData(assessment.answers):
\* the columns hold ciphertext of utils/encryption; the plaintext is a text
\* without or with a name in it.
StoredPlaintexts == {<<"w">>, <<"NAME", "w">>}

ErrorCodeOf(op) ==
  CASE op = "health-assessment" -> "ASSESSMENT_ERROR"
    [] op = "answer-question" -> "ANSWER_PROCESSING_ERROR"
    [] op = "personalized-advice" -> "ADVICE_GENERATION_ERROR"
    [] op = "meal-plan" -> "MEAL_PLAN_ERROR"
    [] OTHER -> "PROGRESS_TRACKING_ERROR"

\* express-validator: the route's required payload field ("query" stands
\* for query, answer, metrics, ...) must be present and not empty
validationPasses(data) == "query" \in DOMAIN data /\ Truthy(data["query"])

\* What the service method does up to its generateLLMResponse call:
\* whether it throws first, the call it makes, the table it leaves.
serviceStart(route, data, ctx, table, assessmentId, stored) ==
  CASE route = "health-assessment" ->
         LET throws == ctx.anonymization /\ anonymizeBodyThrows(data)
             anonymizedData ==
               IF ctx.anonymization /\ ~throws THEN anonymizeBody(data)
               ELSE data
             created == [status |-> "in_progress", answers |-> 0,
                         progress |-> 0, nextQuestion |-> None,
                         recommendations |-> None]
         IN  [throws |-> throws,
              table |-> IF throws THEN table ELSE Append(table, created),
              call |-> [NoLLM EXCEPT
                          !.op = route, !.target = Len(table) + 1,
                          !.prompt = buildQuestionPrompt(JsonText(anonymizedData))]]
    [] route = "answer-question" ->
         LET found == assessmentId <= Len(table)
             answers == IF found THEN table[assessmentId].answers + 1 ELSE 0
             history == Append(stored, data["query"])
         IN  [throws |-> ~found,
              table |-> table,
              call |-> [NoLLM EXCEPT
                          !.op = route, !.target = assessmentId,
                          !.answers = answers,
                          !.prompt =
                             IF answers >= TotalQuestions
                             THEN buildRecommendationsPrompt(history)
                             ELSE buildQuestionPrompt(history)]]
    [] route = "personalized-advice" ->
         LET userProfile == IF "context" \in DOMAIN data THEN data["context"]
                            ELSE Undefined
         IN  [throws |-> FALSE,
              table |-> table,
              call |-> [NoLLM EXCEPT
                          !.op = route, !.userProfile = userProfile,
                          !.prompt = buildAdvicePrompt(data["query"], userProfile)]]
    [] route = "meal-plan" ->
         [throws |-> FALSE, table |-> table,
          call |-> [NoLLM EXCEPT !.op = route, !.prompt = buildMealPlanPrompt]]
    [] OTHER ->
         [throws |-> FALSE, table |-> table,
          call |-> [NoLLM EXCEPT
                      !.op = route,
                      !.prompt = buildInsightsPrompt(data["query"])]]

\* The route: authenticateToken, the validators, and the handler up to the
\* first await of the service's provider call.
RouteHandler ==
  /\ pc = "route"
  /\ \E authenticated \in BOOLEAN, assessmentId \in AssessmentIds,
        stored \in StoredPlaintexts :
       IF ~authenticated
       THEN /\ res' = Reply(401, "UNAUTHORIZED")
            /\ invoked' = invoked \cup {"authenticateToken"}
            /\ pc' = "done"
            /\ UNCHANGED <<llm, assessments>>
       ELSE IF ~validationPasses(body[1])
       THEN /\ res' = Reply(400, "VALIDATION_ERROR")
            /\ invoked' = invoked \cup {"authenticateToken", "routeHandler"}
            /\ pc' = "done"
            /\ UNCHANGED <<llm, assessments>>
       ELSE LET s == serviceStart(req.route, body[1], privacyContext[1],
                                  assessments, assessmentId, stored)
            IN  /\ invoked' = invoked \cup
                      {"authenticateToken", "routeHandler", "ChatbotService"}
                /\ assessments' = s.table
                /\ llm' = IF s.throws THEN llm ELSE s.call
                /\ res' = IF s.throws THEN Reply(500, ErrorCodeOf(req.route))
                          ELSE res
                /\ pc' = IF s.throws THEN "done" ELSE "generate_llm"
  /\ UNCHANGED <<sideVars, cfg, reqCount, req, userConsents, body, privacyContext,
                 mwErr, consentChecked, bodyMinimized, bodyAnonymized,
                 providerCalls>>

\* ChatbotService.generateLLMResponse: the configured primary provider
GenerateLLMResponse ==
  /\ pc = "generate_llm"
  /\ pc' = IF cfg.useLocalLLM THEN "local_generate" ELSE "openai_generate"
  /\ UNCHANGED <<sideVars, cfg, reqCount, req, userConsents, body, privacyContext,
                 mwErr, res, invoked, consentChecked, bodyMinimized,
                 bodyAnonymized, llm, providerCalls, assessments>>

\* ChatbotService.generateOpenAIResponse.  After the anonymization it calls
\* this.buildSystemPrompt, which ChatbotService does not define: the
\* TypeError is caught, logged and rethrown before any request is sent.
GenerateOpenAIResponse ==
  /\ pc = "openai_generate"
  /\ llm' = [llm EXCEPT !.tried = Append(@, "openai")]
  /\ pc' = "llm_catch"
  /\ UNCHANGED <<sideVars, cfg, reqCount, req, userConsents, body, privacyContext,
                 mwErr, res, invoked, consentChecked, bodyMinimized,
                 bodyAnonymized, providerCalls, assessments>>

\* ChatbotService.generateLLMResponse, the catch block
LLMCatch ==
  /\ pc = "llm_catch"
  /\ IF ~cfg.useLocalLLM /\ localLLMOf(cfg) # Undefined
     THEN /\ pc' = "local_generate"
          /\ UNCHANGED llm
     ELSE /\ pc' = "service_return"
          /\ llm' = [llm EXCEPT !.failed = TRUE]
  /\ UNCHANGED <<sideVars, cfg, reqCount, req, userConsents, body, privacyContext,
                 mwErr, res, invoked, consentChecked, bodyMinimized,
                 bodyAnonymized, providerCalls, assessments>>

\* LocalLLMService.generateResponse up to the await of axios.post
LocalGenerate ==
  /\ pc = "local_generate"
  /\ LET anonymizedPrompt == anonymizePrompt(llm.prompt, Undefined)
     IN  llm' = [llm EXCEPT
                   !.payload = Some(buildSystemPrompt(llm.userProfile)
                                      \o anonymizedPrompt),
                   !.tried = Append(@, "local")]
  /\ providerCalls' = providerCalls + 1
  /\ pc' = "local_inflight"
  /\ UNCHANGED <<sideVars, cfg, reqCount, req, userConsents, body, privacyContext,
                 mwErr, res, invoked, consentChecked, bodyMinimized,
                 bodyAnonymized, assessments>>

ProviderOutcomes == {"ok", "empty", "missing", "error", "timeout"}

\* this.model, from LOCAL_MODEL
ConfiguredModel == "local-model"

\* eval_duration of a reply that carries one
EvalDuration == 7

\* whether axios.post resolves: a network error and the timeout reject
resolves(outcome) == outcome \in {"ok", "empty", "missing"}

\* response.data of a resolved call: the reply's response field, if any
responseData(outcome) ==
  CASE outcome = "ok" -> [response |-> Some("GEN"), eval_duration |-> EvalDuration]
    [] outcome = "empty" -> [response |-> Some(""), eval_duration |-> EvalDuration]
    [] OTHER -> [response |-> None, eval_duration |-> EvalDuration]

\* variant: any reply that has a response field counts, an empty one too
hasResponse_defined(data) == data.response # None

\* response.data && response.data.response
hasResponse(data) ==
  /\ data.response # None
  /\ data.response[1] # ""

\* variant: a timed-out call yields the provider's text
settle_timeoutAsReply(outcome, prompt) ==
  IF outcome \in {"ok", "timeout"}
  THEN [success |-> TRUE, response |-> "GEN", model |-> ConfiguredModel,
        processingTime |-> EvalDuration]
  ELSE getFallbackResponse(prompt, Undefined)

\* LocalLLMService.generateResponse from the settling of axios.post: a reply
\* with a response text, a reply without one, a network error, or the
\* 30 s timeout, after which axios aborts the request.
settle(outcome, prompt) ==
  IF resolves(outcome) /\ hasResponse(responseData(outcome))
  THEN [success |-> TRUE, response |-> responseData(outcome).response[1],
        model |-> ConfiguredModel,
        processingTime |-> responseData(outcome).eval_duration]
  ELSE getFallbackResponse(prompt, Undefined)

LocalSettle ==
  /\ pc = "local_inflight"
  /\ \E outcome \in ProviderOutcomes :
       llm' = [llm EXCEPT
                 !.outcome = outcome,
                 !.result = Some(settle(outcome, llm.prompt)),
                 !.tried = IF outcome = "ok" THEN @ ELSE Append(@, "rules")]
  /\ pc' = "service_return"
  /\ UNCHANGED <<sideVars, cfg, reqCount, req, userConsents, body, privacyContext,
                 mwErr, res, invoked, consentChecked, bodyMinimized,
                 bodyAnonymized, providerCalls, assessments>>

\* The provider answers a request that already timed out.  The promise of
\* axios.post was rejected and the request aborted: nothing reads the reply.
LateReply ==
  /\ llm.outcome = "timeout"
  /\ ~llm.lateReply
  /\ llm' = [llm EXCEPT !.lateReply = TRUE]
  /\ UNCHANGED <<sideVars, cfg, reqCount, pc, req, userConsents, body, privacyContext,
                 mwErr, res, invoked, consentChecked, bodyMinimized,
                 bodyAnonymized, providerCalls, assessments>>

\* variant: the update of an unfinished assessment writes the status too
serviceStore_writesStatus(call, table) ==
  LET text == call.result[1].response
      done == call.answers >= TotalQuestions
  IN  CASE call.op = "health-assessment" ->
             [table EXCEPT ![call.target].nextQuestion = Some(text)]
        [] call.op = "answer-question" /\ done ->
             [table EXCEPT ![call.target].status = "completed",
                           ![call.target].progress = 100,
                           ![call.target].answers = call.answers,
                           ![call.target].recommendations = Some(text)]
        [] call.op = "answer-question" /\ ~done ->
             [table EXCEPT ![call.target].status = "in_progress",
                           ![call.target].answers = call.answers,
                           ![call.target].progress =
                              progressOf(call.answers, TotalQuestions),
                           ![call.target].nextQuestion = Some(text)]
        [] OTHER -> table

\* What the service method stores once generateLLMResponse returned.
serviceStore(call, table) ==
  LET text == call.result[1].response
      done == call.answers >= TotalQuestions
  IN  CASE call.op = "health-assessment" ->
             [table EXCEPT ![call.target].nextQuestion = Some(text)]
        [] call.op = "answer-question" /\ done ->
             [table EXCEPT ![call.target].status = "completed",
                           ![call.target].progress = 100,
                           ![call.target].answers = call.answers,
                           ![call.target].recommendations = Some(text)]
        [] call.op = "answer-question" /\ ~done ->
             [table EXCEPT ![call.target].answers = call.answers,
                           ![call.target].progress =
                              progressOf(call.answers, TotalQuestions),
                           ![call.target].nextQuestion = Some(text)]
        [] OTHER -> table

\* The rest of the service method and of the route handler.
ServiceReturn ==
  /\ pc = "service_return"
  /\ IF llm.failed
     THEN /\ res' = Reply(500, ErrorCodeOf(llm.op))
          /\ UNCHANGED assessments
     ELSE /\ assessments' = serviceStore(llm, assessments)
          /\ res' = [Reply(IF llm.op = "health-assessment" THEN 201 ELSE 200,
                           "success")
                       EXCEPT !.model = llm.result[1].model]
  /\ pc' = "done"
  /\ UNCHANGED <<sideVars, cfg, reqCount, req, userConsents, body, privacyContext,
                 mwErr, invoked, consentChecked, bodyMinimized,
                 bodyAnonymized, llm, providerCalls>>

Next ==
  \/ NewRequest
  \/ AppPrivacyMiddleware
  \/ BodyParser
  \/ RouterPrivacyMiddleware
  \/ EnhancedCallback
  \/ ConsentValidationMiddleware
  \/ ErrorHandler
  \/ RouteHandler
  \/ GenerateLLMResponse
  \/ GenerateOpenAIResponse
  \/ LLMCatch
  \/ LocalGenerate
  \/ LocalSettle
  \/ LateReply
  \/ ServiceReturn

Spec == Init /\ [][Next]_vars

\* ------------------------------------------- anonymizePrompt on its own
TextClasses == {"w", "NAME", "LOC", "DATE", "PID", "BAD"}

Texts == UNION {[1..n -> TextClasses] : n \in 0..MaxLen}

AnonymizationLevels == {"low", "medium", "high"}

InitAnon ==
  /\ cfg = [dataMinimization |-> TRUE, anonymization |-> TRUE,
            useLocalLLM |-> TRUE]
  /\ PipelineInit
  /\ anonPayload \in Texts
  /\ anonLevel \in AnonymizationLevels
  /\ anonStage = 0
  /\ anonOnce = <<>>
  /\ anonTwice = <<>>
  /\ FallbackIdle
  /\ LifeIdle
  /\ PrivacyIdle
  /\ ChainIdle

pipelineVars ==
  <<cfg, reqCount, pc, req, userConsents, body, privacyContext, mwErr, res,
    invoked, consentChecked, bodyMinimized, bodyAnonymized, llm,
    providerCalls, assessments>>

AnonymizeOnce ==
  /\ anonStage = 0
  /\ anonOnce' = anonymizePrompt(anonPayload, anonLevel)
  /\ anonStage' = 1
  /\ UNCHANGED <<anonPayload, anonLevel, anonTwice, pipelineVars, chainVars, privacyVars, fallbackVars,
                 lifeVars>>

AnonymizeAgain ==
  /\ anonStage = 1
  /\ anonTwice' = anonymizePrompt(anonOnce, anonLevel)
  /\ anonStage' = 2
  /\ UNCHANGED <<anonPayload, anonLevel, anonOnce, pipelineVars, chainVars, privacyVars, fallbackVars,
                 lifeVars>>

NextAnon == AnonymizeOnce \/ AnonymizeAgain

SpecAnon == InitAnon /\ [][NextAnon]_vars

\* ------------------------------------------ getFallbackResponse on its own
FallbackTokens == {"w", "SYS", "hola", "HOLA", "plan", "AYUDA"}

FallbackPrompts == UNION {[1..n -> FallbackTokens] : n \in 0..MaxLen}

\* context.userProfile of the call, if any
FallbackContexts == {Undefined, "w", "hola"}

InitFallback ==
  /\ cfg = [dataMinimization |-> TRUE, anonymization |-> TRUE,
            useLocalLLM |-> TRUE]
  /\ PipelineInit
  /\ AnonIdle
  /\ LifeIdle
  /\ PrivacyIdle
  /\ ChainIdle
  /\ fbPrompt \in FallbackPrompts
  /\ fbContext \in FallbackContexts
  /\ fbStage = 0
  /\ fbResult = None

Respond ==
  /\ fbStage = 0
  /\ fbResult' = Some(getFallbackResponse(fbPrompt, fbContext))
  /\ fbStage' = 1
  /\ UNCHANGED <<fbPrompt, fbContext, pipelineVars, chainVars, privacyVars, anonVars, lifeVars>>

NextFallback == Respond

SpecFallback == InitFallback /\ [][NextFallback]_vars

\* ------------------------------------------------ the Assessment records
\* The assessment operations of ChatbotService as several callers run them
\* at once: every await is a point where another request's handler runs.
\* A row of the table is found by (id, userId); destroy() removes the row.
\* overlapped and submitted are history: whether two processAnswer calls on
\* the row were ever in flight together, and, while they never were, the
\* valid answers processAnswer has handled for the row.  In a response, view tells
\* whether it carries data of the row; matched, exists and inProgress tell
\* what the lookup of id met: a row of this (id, userId), a row of this
\* id, a row in status in_progress.

\* No operation reads or writes two rows, so one assessment is followed:
\* the first one created.
TrackedIds == {1}

\* req.params.id / body.assessmentId: that id, and one that was never created
RequestIds == TrackedIds \cup {2}

\* the provider's behaviour while the assessments are followed: it replies
LifeOutcomes == {"ok"}

\* generateLLMResponse returns a result with the local service, whose
\* generateResponse catches every failure, and throws with OpenAI
llmReturns(env) == localLLMOf(env) # Undefined

NewRow(userId) ==
  [owner |-> userId, status |-> "in_progress", answers |-> 0,
   progress |-> 0, nextQuestion |-> None, recommendations |-> None,
   submitted |-> 0, overlapped |-> FALSE]

\* Assessment.findOne({ where: { id: assessmentId, userId } })
findOne(table, assessmentId, userId) ==
  assessmentId \in DOMAIN table /\ table[assessmentId].owner = userId

NotFoundReply(op, code, table, assessmentId) ==
  [op |-> op, id |-> assessmentId, matched |-> FALSE,
   exists |-> assessmentId \in DOMAIN table,
   inProgress |-> FALSE, status |-> 500, code |-> code, view |-> FALSE]

LifeInit ==
  /\ cfg \in {c \in Configs : c.dataMinimization /\ c.anonymization}
  /\ PipelineInit
  /\ AnonIdle
  /\ FallbackIdle
  /\ LifeIdle
  /\ PrivacyIdle
  /\ ChainIdle

\* POST /health-assessment -> startHealthAssessment
StartAssessment ==
  /\ createdCount + 1 \in TrackedIds
  /\ \E userId \in Users, healthData \in {"w", "BAD"},
        outcome \in LifeOutcomes :
       LET data == [query |-> healthData]
           throws == cfg.anonymization /\ anonymizeBodyThrows(data)
           id == createdCount + 1
           firstQuestion ==
             settle(outcome, buildQuestionPrompt(JsonText(data))).response
           row == IF llmReturns(cfg)
                  THEN [NewRow(userId) EXCEPT
                          !.nextQuestion = Some(firstQuestion)]
                  ELSE NewRow(userId)
       IN  IF throws
           THEN /\ reply' = [NoReply EXCEPT !.op = "health-assessment",
                               !.status = 500, !.code = "ASSESSMENT_ERROR"]
                /\ UNCHANGED <<rows, createdCount>>
           ELSE /\ rows' = (id :> row) @@ rows
                /\ createdCount' = id
                /\ reply' =
                     IF llmReturns(cfg)
                     THEN [NoReply EXCEPT
                             !.op = "health-assessment", !.matched = TRUE,
                             !.status = 201, !.code = "success",
                             !.view = TRUE]
                     ELSE [NoReply EXCEPT !.op = "health-assessment",
                             !.status = 500, !.code = "ASSESSMENT_ERROR"]
  /\ UNCHANGED <<sessions, pipelineVars, chainVars, privacyVars, anonVars, fallbackVars>>

\* history: one more valid answer was handled for the row
Handled(table, id) ==
  IF id \in DOMAIN table /\ ~table[id].overlapped
  THEN [table EXCEPT ![id].submitted = @ + 1]
  ELSE table

\* POST /answer-question -> processAnswer, up to the await of the provider
\* call: the row is read, the answer pushed on the copy in memory.  retry
\* tells that the request carries the questionId and answer of the last
\* answer recorded, which the code does not look at.
SubmitBegin(s) ==
  /\ sessions[s] = NoSession
  /\ \E userId \in Users, assessmentId \in RequestIds, retry \in BOOLEAN :
       IF ~findOne(rows, assessmentId, userId)
       THEN /\ reply' = NotFoundReply("answer-question",
                                      "ANSWER_PROCESSING_ERROR",
                                      rows, assessmentId)
            /\ UNCHANGED <<rows, sessions>>
       ELSE /\ retry => rows[assessmentId].answers > 0
            /\ rows[assessmentId].answers < MaxAnswers
            /\ rows[assessmentId].submitted < MaxAnswers
            /\ sessions' =
                 [sessions EXCEPT ![s] =
                    [id |-> assessmentId,
                     answers |-> rows[assessmentId].answers + 1,
                     status |-> rows[assessmentId].status,
                     retry |-> retry]]
            /\ rows' =
                 IF \E t \in Sessions : sessions[t].id = assessmentId
                 THEN [rows EXCEPT ![assessmentId].overlapped = TRUE,
                                   ![assessmentId].submitted = 0]
                 ELSE rows
            /\ UNCHANGED reply
  /\ UNCHANGED <<createdCount, pipelineVars, chainVars, privacyVars, anonVars, fallbackVars>>

\* processAnswer from the return of the provider call: assessment.update
\* writes the copy in memory.  An UPDATE of a row that was destroyed in
\* the meantime changes nothing.
SubmitEnd(s) ==
  /\ sessions[s] # NoSession
  /\ \E outcome \in LifeOutcomes :
       LET c == sessions[s]
           done == c.answers >= TotalQuestions
           prompt == IF done THEN buildRecommendationsPrompt(<<"w">>)
                     ELSE buildQuestionPrompt(<<"w">>)
           call == [NoLLM EXCEPT
                      !.op = "answer-question", !.target = c.id,
                      !.answers = c.answers,
                      !.result = Some(settle(outcome, prompt))]
       IN  IF ~llmReturns(cfg)
           THEN /\ reply' = [NoReply EXCEPT
                               !.op = "answer-question", !.id = c.id,
                               !.matched = TRUE, !.exists = TRUE,
                               !.inProgress = (c.status = "in_progress"),
                               !.status = 500,
                               !.code = "ANSWER_PROCESSING_ERROR"]
                /\ rows' = Handled(rows, c.id)
           ELSE /\ rows' =
                     IF c.id \in DOMAIN rows
                     THEN Handled(serviceStore(call, rows), c.id)
                     ELSE rows
                /\ reply' =
                     [NoReply EXCEPT
                        !.op = "answer-question", !.id = c.id,
                        !.matched = TRUE, !.exists = TRUE,
                        !.inProgress = (c.status = "in_progress"),
                        !.status = 200, !.code = "success", !.view = TRUE]
  /\ sessions' = [sessions EXCEPT ![s] = NoSession]
  /\ UNCHANGED <<createdCount, pipelineVars, chainVars, privacyVars, anonVars, fallbackVars>>

\* GET /assessment/:id -> getAssessment
GetAssessment ==
  /\ \E userId \in Users, assessmentId \in RequestIds :
       reply' =
         IF ~findOne(rows, assessmentId, userId)
         THEN NotFoundReply("get", "ASSESSMENT_RETRIEVAL_ERROR",
                            rows, assessmentId)
         ELSE [NoReply EXCEPT
                 !.op = "get", !.id = assessmentId,
                 !.matched = TRUE, !.exists = TRUE,
                 !.status = 200, !.code = "success", !.view = TRUE]
  /\ UNCHANGED <<rows, createdCount, sessions, pipelineVars, chainVars, privacyVars, anonVars,
                 fallbackVars>>

\* DELETE /assessment/:id -> deleteAssessment
DeleteAssessment ==
  /\ \E userId \in Users, assessmentId \in RequestIds :
       IF ~findOne(rows, assessmentId, userId)
       THEN /\ reply' = NotFoundReply("delete", "ASSESSMENT_DELETION_ERROR",
                                      rows, assessmentId)
            /\ UNCHANGED rows
       ELSE /\ rows' = [i \in DOMAIN rows \ {assessmentId} |-> rows[i]]
            /\ reply' = [NoReply EXCEPT
                           !.op = "delete", !.id = assessmentId,
                           !.matched = TRUE, !.exists = TRUE,
                           !.status = 200,
                           !.code = "success"]
  /\ UNCHANGED <<createdCount, sessions, pipelineVars, chainVars, privacyVars, anonVars, fallbackVars>>

NextLife ==
  \/ StartAssessment
  \/ \E s \in Sessions : SubmitBegin(s)
  \/ \E s \in Sessions : SubmitEnd(s)
  \/ GetAssessment
  \/ DeleteAssessment

SpecLife == LifeInit /\ [][NextLife]_vars

\* A processAnswer call that awaits the provider is resumed by the event
\* loop, and the client goes on submitting answers.
SpecLifeFair ==
  /\ LifeInit
  /\ [][NextLife]_vars
  /\ WF_vars(\E s \in Sessions : SubmitEnd(s))
  /\ WF_vars(\E s \in Sessions : SubmitBegin(s))

\* ------------------------------------------------- the privacy routes
\* routes/privacy.js.  services/privacyService is not part of the sources:
\* its operations keep the Consent table and the stored personal data as
\* the data model describes them.  A consent record is created on grant
\* and marked on revoke; deleteUserData hard-deletes the data records of
\* the subject, reports their number, and fails for a subject that has
\* none.
ConsentIds == 1..MaxConsents

updateConsents(table, count, userId) ==
  (count + 1 :> [owner |-> userId, granted |-> TRUE, revoked |-> FALSE])
    @@ table

revokeConsent(table, userId, consentId) ==
  LET found == consentId \in DOMAIN table /\ table[consentId].owner = userId
  IN  [throws |-> ~found,
       table |-> IF found THEN [table EXCEPT ![consentId].revoked = TRUE]
                 ELSE table]

\* variant: the consent records of the subject are deleted with the data
deleteUserData_withConsents(records, table, userId) ==
  [throws |-> records[userId] = 0,
   deletedRecords |-> records[userId],
   records |-> [records EXCEPT ![userId] = 0],
   table |-> [i \in {j \in DOMAIN table : table[j].owner # userId}
                |-> table[i]]]

deleteUserData(records, table, userId) ==
  [throws |-> records[userId] = 0,
   deletedRecords |-> records[userId],
   records |-> [records EXCEPT ![userId] = 0],
   table |-> table]

\* this inside the arrow function of a route: the module's initial exports
\* object, which has no property (module.exports is replaced by the router)
moduleThis == {}

ExportFormats == {"json", "csv", "xml"}

\* function getContentType(format), a function of the module scope
getContentType(format) ==
  CASE format = "json" -> "application/json"
    [] format = "csv" -> "text/csv"
    [] format = "xml" -> "application/xml"
    [] OTHER -> "application/json"

PrivacyInit ==
  /\ cfg \in {c \in Configs : c.dataMinimization /\ c.anonymization}
  /\ PipelineInit
  /\ AnonIdle
  /\ FallbackIdle
  /\ LifeIdle
  /\ PrivacyIdle
  /\ ChainIdle

privacySideVars ==
  <<pipelineVars, anonVars, fallbackVars, lifeVars, chainVars>>

\* POST /consent -> updateConsents
ConsentRoute ==
  /\ consentCount < MaxConsents
  /\ \E userId \in Users, valid \in BOOLEAN :
       IF ~valid
       THEN /\ privacyReply' = [NoPrivacyReply EXCEPT
                                  !.op = "consent", !.status = 400,
                                  !.code = "VALIDATION_ERROR"]
            /\ UNCHANGED <<consentRecords, consentCount>>
       ELSE /\ consentRecords' =
                 updateConsents(consentRecords, consentCount, userId)
            /\ consentCount' = consentCount + 1
            /\ privacyReply' = [NoPrivacyReply EXCEPT
                                  !.op = "consent", !.status = 200,
                                  !.code = "success"]
  /\ UNCHANGED <<dataRecords, privacySideVars>>

\* POST /consent/revoke -> revokeConsent
ConsentRevokeRoute ==
  /\ \E userId \in Users, consentId \in ConsentIds :
       LET r == revokeConsent(consentRecords, userId, consentId)
       IN  /\ consentRecords' = r.table
           /\ privacyReply' =
                IF r.throws
                THEN [NoPrivacyReply EXCEPT
                        !.op = "revoke", !.status = 500,
                        !.code = "CONSENT_REVOCATION_ERROR"]
                ELSE [NoPrivacyReply EXCEPT
                        !.op = "revoke", !.status = 200, !.code = "success"]
  /\ UNCHANGED <<consentCount, dataRecords, privacySideVars>>

\* Assessment.create of the chatbot routes: one more data record
StoreRecord ==
  /\ \E userId \in Users :
       /\ dataRecords[userId] < MaxRecords
       /\ dataRecords' = [dataRecords EXCEPT ![userId] = @ + 1]
  /\ UNCHANGED <<consentRecords, consentCount, privacyReply, privacySideVars>>

\* DELETE /assessment/:id -> assessment.destroy(): one data record less
DestroyRecord ==
  /\ \E userId \in Users :
       /\ dataRecords[userId] > 0
       /\ dataRecords' = [dataRecords EXCEPT ![userId] = @ - 1]
  /\ privacyReply' = [NoPrivacyReply EXCEPT
                        !.op = "delete-assessment", !.status = 200,
                        !.code = "success"]
  /\ UNCHANGED <<consentRecords, consentCount, privacySideVars>>

\* DELETE /data/delete -> deleteUserData; held is what the subject had
DeleteDataRoute ==
  /\ \E userId \in Users :
       LET r == deleteUserData(dataRecords, consentRecords, userId)
       IN  IF r.throws
           THEN /\ privacyReply' = [NoPrivacyReply EXCEPT
                                      !.op = "delete-data", !.status = 500,
                                      !.code = "DATA_DELETION_ERROR",
                                      !.held = dataRecords[userId]]
                /\ UNCHANGED <<dataRecords, consentRecords>>
           ELSE /\ dataRecords' = r.records
                /\ consentRecords' = r.table
                /\ privacyReply' = [NoPrivacyReply EXCEPT
                                      !.op = "delete-data", !.status = 200,
                                      !.code = "success",
                                      !.held = dataRecords[userId],
                                      !.deletedRecords = r.deletedRecords]
  /\ UNCHANGED <<consentCount, privacySideVars>>

\* POST /data/export -> exportUserData, then the response headers;
\* exported tells that exportUserData returned the serialized data
ExportRoute ==
  /\ \E userId \in Users, format \in ExportFormats \cup {"pdf"},
        exportThrows \in BOOLEAN :
       privacyReply' =
         IF format \notin ExportFormats
         THEN [NoPrivacyReply EXCEPT
                 !.op = "export", !.format = format, !.status = 400,
                 !.code = "VALIDATION_ERROR"]
         ELSE IF exportThrows \/ "getContentType" \notin moduleThis
         THEN [NoPrivacyReply EXCEPT
                 !.op = "export", !.format = format,
                 !.exported = ~exportThrows, !.status = 500,
                 !.code = "DATA_EXPORT_ERROR"]
         ELSE [NoPrivacyReply EXCEPT
                 !.op = "export", !.format = format, !.exported = TRUE,
                 !.status = 200, !.code = "success",
                 !.contentType = getContentType(format)]
  /\ UNCHANGED <<consentRecords, consentCount, dataRecords, privacySideVars>>

NextPrivacy ==
  \/ ConsentRoute
  \/ ConsentRevokeRoute
  \/ StoreRecord
  \/ DestroyRecord
  \/ DeleteDataRoute
  \/ ExportRoute

SpecPrivacy == PrivacyInit /\ [][NextPrivacy]_vars

\* ------------------------------------------- one middleware invocation
\* The three middlewares, each invoked with a request and a continuation
\* next; the continuation may throw when it is first called.
ProbePaths ==
  {<<"x">>, <<"medical">>, <<"api", "user", "export-data">>,
   <<"api", "chatbot", "health-assessment">>}

ProbeBodies == {None, Some([query |-> "w"]), Some([query |-> "BAD"])}

ProbeHeaders == UserConsentHeaders \cup {Some({"data_portability"})}

\* next(err) as the caller supplied it: it is counted, and throws on its
\* first call when nextThrows
callNext(t, err, nextThrows) ==
  [t |-> [t EXCEPT !.nextCalls = @ + 1,
                   !.nextErrors = @ + (IF err THEN 1 ELSE 0)],
   throws |-> nextThrows /\ t.nextCalls = 0]

\* enhancedPrivacyMiddleware, lines 109-131: the callback handed to
\* privacyMiddleware as its continuation
enhancedCallback(t, err, path, consentValid, nextThrows) ==
  IF err
  THEN callNext(t, TRUE, nextThrows)
  ELSE IF isHealthPath(path) /\ ~consentValid
  THEN [t |-> [t EXCEPT !.responses = @ + 1], throws |-> FALSE]
  ELSE callNext(t, FALSE, nextThrows)

\* the continuation privacyMiddleware runs with
continuation(kind, t, err, path, consentValid, nextThrows) ==
  IF kind = "enhancedPrivacyMiddleware"
  THEN enhancedCallback(t, err, path, consentValid, nextThrows)
  ELSE callNext(t, err, nextThrows)

\* privacyMiddleware, lines 13-64: next() is the last statement of the try
\* block, next(error) the last of the catch block; r is the outcome of the
\* statements before next()
runPrivacyMiddleware(kind, r, path, nextThrows) ==
  LET consentValid == r.privacyContext.consentValid
      first == continuation(kind, NoTrace, r.err # NoError, path,
                            consentValid, nextThrows)
      second == continuation(kind, first.t, TRUE, path, consentValid,
                             nextThrows)
  IN  IF r.err # NoError
      THEN [first.t EXCEPT !.escaped = first.throws]
      ELSE IF first.throws
      THEN [second.t EXCEPT !.escaped = second.throws]
      ELSE first.t

\* consentValidationMiddleware, lines 137-155: no try block
runConsentValidation(path, header, nextThrows) ==
  LET requiredConsents == getRequiredConsents(path)
      missingConsents == missingConsentsOf(requiredConsents, header)
  IN  IF Len(requiredConsents) > 0 /\ Len(missingConsents) > 0
      THEN [NoTrace EXCEPT !.responses = 1]
      ELSE LET n == callNext(NoTrace, FALSE, nextThrows)
           IN  [n.t EXCEPT !.escaped = n.throws]

InitChain ==
  /\ cfg \in {c \in Configs : c.useLocalLLM}
  /\ PipelineInit
  /\ AnonIdle
  /\ FallbackIdle
  /\ LifeIdle
  /\ PrivacyIdle
  /\ ChainIdle

chainSideVars == <<pipelineVars, anonVars, fallbackVars, lifeVars, privacyVars>>

\* privacyMiddleware(req, res, next)
InvokePrivacy ==
  /\ \E path \in ProbePaths, t \in TokenPairs, b \in ProbeBodies,
        nextThrows \in BOOLEAN :
       /\ mwCall' = [NoCall EXCEPT
                       !.kind = "privacyMiddleware", !.path = path,
                       !.headerToken = t[1], !.cookieToken = t[2],
                       !.body = b, !.nextThrows = nextThrows]
       /\ mwTrace' = runPrivacyMiddleware(
                        "privacyMiddleware",
                        privacyMiddleware(cfg, path, t[1], t[2], b),
                        path, nextThrows)
  /\ UNCHANGED chainSideVars

\* enhancedPrivacyMiddleware(req, res, next)
InvokeEnhanced ==
  /\ \E path \in ProbePaths, t \in TokenPairs, b \in ProbeBodies,
        nextThrows \in BOOLEAN :
       /\ mwCall' = [NoCall EXCEPT
                       !.kind = "enhancedPrivacyMiddleware", !.path = path,
                       !.headerToken = t[1], !.cookieToken = t[2],
                       !.body = b, !.nextThrows = nextThrows]
       /\ mwTrace' = runPrivacyMiddleware(
                        "enhancedPrivacyMiddleware",
                        privacyMiddleware(cfg, path, t[1], t[2], b),
                        path, nextThrows)
  /\ UNCHANGED chainSideVars

\* consentValidationMiddleware(req, res, next)
InvokeConsentValidation ==
  /\ \E path \in ProbePaths, header \in ProbeHeaders, nextThrows \in BOOLEAN :
       /\ mwCall' = [NoCall EXCEPT
                       !.kind = "consentValidationMiddleware",
                       !.path = path, !.header = header,
                       !.nextThrows = nextThrows]
       /\ mwTrace' = runConsentValidation(path, header, nextThrows)
  /\ UNCHANGED chainSideVars

NextChain ==
  \/ InvokePrivacy
  \/ InvokeEnhanced
  \/ InvokeConsentValidation

SpecChain == InitChain /\ [][NextChain]_vars

\* ----------------------------------------------------------------- claims
NextHandlers == {"consentValidationMiddleware", "routeHandler", "ChatbotService"}

NoConsent == privacyContext # None /\ ~privacyContext[1].consentValid

C2_ConsentCheckFirst ==
  (req.route = "health-assessment"
     /\ (bodyMinimized \/ bodyAnonymized \/ providerCalls > 0))
    => consentChecked

\* C3: no request on answer-question, personalized-advice or meal-plan
\* reaches the service or a provider with consentValid = false.
C3_NoServiceWithoutConsent ==
  (req.route \in {"answer-question", "personalized-advice", "meal-plan"}
     /\ ("ChatbotService" \in invoked \/ providerCalls > 0))
    => privacyContext[1].consentValid

\* C4: a request on an operation of the consent table that passed through
\* the consent gate was rejected with 403 MISSING_CONSENTS listing exactly
\* the required types it does not hold if there is such a type, and went on
\* to the next handler otherwise.
C4_MissingConsentsRejected ==
  ("consentValidationMiddleware" \in invoked
     /\ OriginalPath(req.route) \in DOMAIN consentMap)
    => LET required == ToSet(consentMap[OriginalPath(req.route)])
           held == IF userConsents = None THEN {} ELSE userConsents[1]
           missing == required \ held
       IN  IF missing # {}
           THEN /\ res.status = 403
                /\ res.code = "MISSING_CONSENTS"
                /\ res.missingConsents = missing
           ELSE res.code # "MISSING_CONSENTS"

\* C5: whenever a request has a privacy context, its consentValid is true
\* exactly if this request supplied a consent token (header, else cookie)
\* and the validator accepted that token; a new request has no context.
C5_ConsentValidFromOwnToken ==
  /\ privacyContext # None =>
       LET supplied == req.headerToken # Undefined
                         \/ req.cookieToken # Undefined
           token == IF req.headerToken # Undefined THEN req.headerToken
                    ELSE req.cookieToken
       IN  privacyContext[1].consentValid <=> (supplied /\ token = "good")
  /\ pc = "app_privacy" => privacyContext = None

C5_Witness ==
  /\ reqCount = 2
  /\ privacyContext # None
  /\ ~privacyContext[1].consentValid
  /\ req.headerToken = "bad"
  /\ req.cookieToken = "good"

FallbackModels == {"fallback-default", "fallback-rule-based"}

\* C6: an advice request whose provider calls all failed is answered with
\* success and a rule-based result.
C6_AdviceAlwaysAnswered ==
  (pc = "done" /\ llm.op = "personalized-advice" /\ llm.outcome # "ok")
    => /\ res.status = 200
       /\ res.model \in FallbackModels

Count(s, x) == Cardinality({i \in 1..Len(s) : s[i] = x})

\* C7: the primary provider is tried first; when it failed and a secondary
\* provider is configured (the local service behind OpenAI), the secondary
\* is tried exactly once; the rule-based responder comes only after them.
C7_ProviderOrder ==
  (pc \in {"service_return", "done"} /\ llm.op # "none")
    => LET primary == IF cfg.useLocalLLM THEN "local" ELSE "openai"
           tried == llm.tried
       IN  /\ Len(tried) > 0
           /\ tried[1] = primary
           /\ (~cfg.useLocalLLM /\ llm.outcome # "ok")
                => Count(tried, "local") = 1
           /\ \A i \in 1..Len(tried) :
                tried[i] = "rules" => i = Len(tried) /\ i > 1

\* C8: a provider call that timed out gives the caller the result of the
\* fallback policy, never the provider's text, also once a late reply has
\* arrived; and the late text is not stored in the assessment.
C8_TimeoutIsFailure ==
  llm.outcome = "timeout"
    => /\ llm.result # None
       /\ llm.result[1].model \in FallbackModels
       /\ llm.result[1].response # "GEN"
       /\ pc = "done" =>
            /\ res.status \in {200, 201}
            /\ res.model \in FallbackModels
            /\ llm.op \in {"health-assessment", "answer-question"} =>
                 assessments[llm.target].nextQuestion
                   = Some(llm.result[1].response)

C8_Witness ==
  /\ llm.outcome = "timeout"
  /\ llm.lateReply
  /\ pc = "done"
  /\ llm.op = "health-assessment"
  /\ res.model = "fallback-rule-based"

\* C9: the text posted to a provider holds no name: the prompt and the
\* context fields went through the anonymization at the request's level
\* (medium, which removes names).
C9_PayloadAnonymized ==
  llm.payload # None => "NAME" \notin ToSet(llm.payload[1])

Without(text, classes) ==
  LET Kept(t) == t \notin classes IN SelectSeq(text, Kept)

LevelResult(level) == anonymizePrompt(anonPayload, level)

\* C11 as stated: low returns the payload unchanged, medium removes the
\* names only, high removes names, locations, dates and personal
\* identifiers, and for a payload with a name and a location the high
\* result has strictly more removed than the medium result.
C11_LevelsOrdered ==
  anonStage >= 1 =>
    /\ anonLevel = "low" => anonOnce = anonPayload
    /\ anonLevel = "medium" => anonOnce = Without(anonPayload, {"NAME"})
    /\ anonLevel = "high" =>
         anonOnce = Without(anonPayload, {"NAME", "LOC", "DATE", "PID"})
    /\ ({"NAME", "LOC"} \subseteq ToSet(anonPayload)) =>
         Len(LevelResult("high")) < Len(LevelResult("medium"))

\* C11 amended: the same, for every payload the anonymizer does not raise
\* an error on; when it raises one, every level returns the payload
\* unchanged.
C11_LevelsOrderedUnlessError ==
  anonStage >= 1 =>
    IF anonymizeDataThrows(anonPayload)
    THEN /\ anonOnce = anonPayload
         /\ LevelResult("high") = LevelResult("medium")
    ELSE /\ anonLevel = "low" => anonOnce = anonPayload
         /\ anonLevel = "medium" => anonOnce = Without(anonPayload, {"NAME"})
         /\ anonLevel = "high" =>
              anonOnce = Without(anonPayload, {"NAME", "LOC", "DATE", "PID"})
         /\ ({"NAME", "LOC"} \subseteq ToSet(anonPayload)) =>
              Len(LevelResult("high")) < Len(LevelResult("medium"))

C11_Witness ==
  /\ anonStage >= 1
  /\ anonLevel = "high"
  /\ anonPayload = <<"NAME", "LOC", "w">>
  /\ anonOnce = <<"w">>

\* C12: anonymization is fail-open wherever it is applied: when the
\* anonymizer raises an error on the request body in the privacy
\* middleware, the request goes on with the body unmodified and is not
\* failed; when it raises one on a provider prompt, the original prompt is
\* posted.
C12_FailOpen ==
  /\ mwErr = "anonymizer_error" =>
       /\ pc # "error_handler"
       /\ "errorHandler" \notin invoked
       /\ res.status # 500
  /\ (llm.payload # None /\ anonymizeDataThrows(llm.prompt)) =>
       llm.payload[1] = buildSystemPrompt(llm.userProfile) \o llm.prompt

\* C13: a body that went through minimizeData holds none of the deny-list
\* identifier fields, whatever value the field had.
C13_DenyListStripped ==
  (bodyMinimized /\ body # None)
    => DOMAIN body[1] \cap personalIdentifiers = {}

\* C14: with minimization enabled, the body a chatbot route handler sees
\* holds only fields of the allow-list.
C14_AllowListApplied ==
  (cfg.dataMinimization /\ "routeHandler" \in invoked
     /\ req.route \in ChatbotRoutes)
    => /\ bodyMinimized
       /\ DOMAIN body[1] \subseteq allowedFields

KeyIndex(key) == CHOOSE i \in 1..Len(fallbackKeys) : fallbackKeys[i] = key

\* C15: the responder answers with the canned answer of a table keyword
\* the prompt contains, case-insensitively: the earliest such keyword in
\* table order; it answers with the generic acknowledgement and model
\* "fallback-default" exactly when the prompt contains no keyword; the
\* result is the same for every context.
C15_RuleBasedAnswer ==
  fbStage = 1 =>
    LET contained == {k \in ToSet(fallbackKeys) :
                        \E i \in 1..Len(fbPrompt) : k \in keysIn(fbPrompt[i])}
        r == fbResult[1]
    IN  /\ r.success
        /\ (contained = {}) <=> (r.model = "fallback-default")
        /\ contained = {} => r.response = "generic"
        /\ contained # {} =>
             /\ r.model = "fallback-rule-based"
             /\ r.response \in contained
             /\ \A k \in contained : KeyIndex(r.response) <= KeyIndex(k)
        /\ \A c \in FallbackContexts : getFallbackResponse(fbPrompt, c) = r

C15_Witness ==
  /\ fbStage = 1
  /\ fbPrompt = <<"plan", "HOLA", "w">>
  /\ fbContext = "hola"
  /\ fbResult[1].response = "hola"

\* p is 100 * k / n rounded to the nearest integer, halves upwards
IsRounded(p, k, n) == 200 * k - n < 2 * n * p /\ 2 * n * p <= 200 * k + n

\* C16: every assessment has at most totalQuestions recorded answers, its
\* progress is round(100 * answers / totalQuestions), between 0 and 100.
C16_AnswersAndProgressBounded ==
  \A id \in DOMAIN rows :
    /\ rows[id].answers <= TotalQuestions
    /\ IsRounded(rows[id].progress, rows[id].answers, TotalQuestions)
    /\ rows[id].progress \in 0..100

\* C17: for an assessment whose answers were submitted one at a time, after
\* k valid answers with k < totalQuestions the status is in_progress, k
\* answers are recorded, progress is round(100 * k / totalQuestions) (93
\* after 14 of 15) and there are no recommendations; after the answer
\* number totalQuestions the status is completed, progress is 100 and the
\* recommendations are not empty.
C17_ProgressThenCompleted ==
  \A id \in DOMAIN rows :
    ~rows[id].overlapped =>
      LET k == rows[id].submitted
      IN  /\ k < TotalQuestions =>
               /\ rows[id].status = "in_progress"
               /\ rows[id].answers = k
               /\ IsRounded(rows[id].progress, k, TotalQuestions)
               /\ rows[id].recommendations = None
          /\ k = 14 => rows[id].progress = 93
          /\ k = TotalQuestions =>
               /\ rows[id].status = "completed"
               /\ rows[id].progress = 100
               /\ rows[id].recommendations # None
               /\ rows[id].recommendations[1] # ""

\* C18: the status of an assessment only moves from in_progress to
\* completed, and from either to deleted, where the record is gone: no
\* step moves completed back to in_progress, and a deleted assessment
\* never has a record again.
C18_StatusOnlyForward ==
  [][\A id \in RequestIds :
       /\ (id \in DOMAIN rows /\ id \in DOMAIN rows') =>
            \/ rows'[id].status = rows[id].status
            \/ rows[id].status = "in_progress"
                  /\ rows'[id].status = "completed"
       /\ (id \notin DOMAIN rows /\ id <= createdCount) =>
            id \notin DOMAIN rows']_vars

\* a processAnswer call that was in flight when its assessment was
\* deleted has returned
C18_Witness ==
  /\ createdCount = 1
  /\ DOMAIN rows = {}
  /\ reply.op = "answer-question"
  /\ reply.status = 200

\* C19: submitAnswer on an (id, owner) pair that matches no assessment, or
\* on an assessment that is not in_progress, is answered 404.
C19_SubmitNotFound ==
  (reply.op = "answer-question" /\ (~reply.matched \/ ~reply.inProgress))
    => reply.status = 404

\* C20: get, submitAnswer and delete by a caller who does not own an
\* existing assessment are answered NotFound (404), without data of the
\* record.
C20_NoExistenceLeak ==
  (reply.op \in {"get", "answer-question", "delete"}
     /\ reply.exists /\ ~reply.matched)
    => /\ reply.status = 404
       /\ ~reply.view

\* C21: once an assessment was deleted, a getAssessment and a repeated
\* delete for its id are answered NotFound (404), never with a success
\* response or with data of the record.
C21_DeletedIsNotFound ==
  (reply.op \in {"get", "delete"} /\ ~reply.matched
     /\ reply.id <= createdCount /\ reply.id \notin DOMAIN rows)
    => /\ reply.status = 404
       /\ ~reply.view

\* C22: while a processAnswer call waits for the provider, and after the
\* provider step failed, the answer of the call is recorded in the
\* assessment: the record holds the answers the call counted, with the
\* progress recomputed, and is still in_progress if it was.
C22_AnswerCommittedFirst ==
  /\ \A s \in Sessions :
       (sessions[s] # NoSession /\ sessions[s].id \in DOMAIN rows
          /\ ~rows[sessions[s].id].overlapped)
         => rows[sessions[s].id].answers >= sessions[s].answers
  /\ (reply.op = "answer-question" /\ reply.matched /\ reply.status = 500
        /\ reply.id \in DOMAIN rows /\ ~rows[reply.id].overlapped)
       => /\ rows[reply.id].answers = rows[reply.id].submitted
          /\ IsRounded(rows[reply.id].progress, rows[reply.id].answers,
                       TotalQuestions)

\* C23: a request that repeats the questionId and answer already recorded
\* is rejected as a duplicate: when its processAnswer call ends, the
\* record holds as many answers and the same progress as before.
C23_DuplicateRejected ==
  [][\A s \in Sessions :
       (sessions[s].retry /\ sessions'[s] = NoSession
          /\ sessions[s].id \in DOMAIN rows
          /\ ~rows[sessions[s].id].overlapped)
         => /\ rows'[sessions[s].id].answers = rows[sessions[s].id].answers
            /\ rows'[sessions[s].id].progress = rows[sessions[s].id].progress
            /\ reply'.status # 200]_vars

\* C24: processAnswer calls on one assessment are serialized: every call
\* that is answered 200 leaves the record with one answer more than it
\* held just before the call stored its result.
C24_SubmitsSerialized ==
  [][\A s \in Sessions :
       (sessions[s] # NoSession /\ sessions'[s] = NoSession
          /\ sessions[s].id \in DOMAIN rows /\ reply'.status = 200)
         => rows'[sessions[s].id].answers = rows[sessions[s].id].answers + 1]_vars

C26_DeleteDataNotFound ==
  privacyReply.op = "delete-data" =>
    /\ privacyReply.held = 0 => privacyReply.status = 404
    /\ privacyReply.status = 200 =>
         privacyReply.deletedRecords = privacyReply.held

\* C27: an export request with format json, csv or xml whose
\* exportUserData call succeeded is answered 200 with the content type of
\* the format.
C27_ExportContentType ==
  (privacyReply.op = "export" /\ privacyReply.format \in ExportFormats
     /\ privacyReply.exported)
    => /\ privacyReply.status = 200
       /\ privacyReply.contentType = getContentType(privacyReply.format)
       /\ privacyReply.format = "csv" => privacyReply.contentType = "text/csv"
       /\ privacyReply.format = "xml" =>
            privacyReply.contentType = "application/xml"

\* C28: an invocation of privacyMiddleware, enhancedPrivacyMiddleware or
\* consentValidationMiddleware either sends one response and never calls
\* next, or calls next exactly once and sends no response, also when next
\* or the consent validator throws.
C28_ExactlyOneOutcome ==
  mwCall.kind # "none"
    => \/ mwTrace.responses = 1 /\ mwTrace.nextCalls = 0
       \/ mwTrace.responses = 0 /\ mwTrace.nextCalls = 1

\* C29: generateResponse returns the provider's text, with the configured
\* model, only for a reply that carries a non-empty response; a reply whose
\* response is missing or empty yields what a failed call yields, the
\* rule-based result with model fallback-rule-based or fallback-default
\* and processingTime 0.
C29_EmptyReplyIsFailure ==
  llm.result # None
    => /\ llm.result[1].model = ConfiguredModel
            <=> llm.outcome = "ok"
       /\ llm.result[1].model = ConfiguredModel
            => llm.result[1].response = "GEN"
       /\ llm.outcome \in {"empty", "missing", "error", "timeout"}
            => /\ llm.result[1] = getFallbackResponse(llm.prompt, Undefined)
               /\ llm.result[1].model \in FallbackModels
               /\ llm.result[1].processingTime = 0
               /\ llm.result[1].response # ""

C29_Witness ==
  /\ llm.outcome = "empty"
  /\ llm.result # None
  /\ llm.result[1].model = "fallback-rule-based"
  /\ pc = "done"
  /\ res.status \in {200, 201}

\* the final answer of the assessment was submitted, one answer at a
\* time, and the assessment is still in_progress
FinalAnswerPending(id) ==
  /\ id \in DOMAIN rows
  /\ rows[id].status = "in_progress"
  /\ ~rows[id].overlapped
  /\ rows[id].submitted >= TotalQuestions

====
